---- MODULE Spec2Model ----
(***************************************************************************)
(* Model of the LibriSeVoc API server (src/server.py): the POST /evaluate  *)
(* handler evaluate_audio with its helpers allowed_file,                   *)
(* download_audio_from_url and run_evaluation, running one thread per      *)
(* request (app.run(threaded=True)) over a shared upload directory.        *)
(*                                                                         *)
(* Text is modelled as a sequence of tokens.  The tokens "M" and "B" stand *)
(* for the marker substrings "Multi classification result" and             *)
(* "Binary classification result", "NL" for a newline, " " for a blank,    *)
(* ":" for a colon; every other token is ordinary text.                    *)
(***************************************************************************)
EXTENDS Integers, Sequences, FiniteSets, TLC

\* ------------------------------------------------------------------ bounds
\* Number of concurrent requests (threads of the threaded server).
NumRequests == 2
\* Largest value of the wall clock int(time.time()), in seconds.
MaxTime == 1
\* Longest evaluator stdout enumerated for the result interpreter.
MaxLen == 5
\* Run time (s) of an evaluator child that finishes in time.
ShortRun == 1
\* Size (bytes) of a small request body / download.
SmallBody == 10

\* ------------------------------------------------------- program constants
UPLOAD_FOLDER == "uploads"
MODEL_PATH == "model.pth"
ALLOWED_EXTENSIONS == {"wav", "mp3", "flac", "ogg", "m4a"}
\* app.config['MAX_CONTENT_LENGTH'] and the 100MB limit of the download.
MAX_CONTENT_LENGTH == 100 * 1024 * 1024
CHUNK_SIZE == 8192
EVAL_TIMEOUT == 300

Requests == 1..NumRequests

\* ------------------------------------------------------------ text helpers
SetMin(S) == CHOOSE x \in S : \A y \in S : x <= y
SetMax(S) == CHOOSE x \in S : \A y \in S : x >= y

\* tok in line  (substring test for a one-token substring)
Contains(line, tok) == \E i \in 1..Len(line) : line[i] = tok

\* str.lower() on one token
Lower(t) ==
  CASE t = "WAV" -> "wav"
    [] t = "MP3" -> "mp3"
    [] t = "TXT" -> "txt"
    [] OTHER -> t

\* filename.rsplit('.', 1)[1] : the text after the last '.'
RSplitExt(filename) ==
  LET dots == {i \in 1..Len(filename) : filename[i] = "."}
  IN  SubSeq(filename, SetMax(dots) + 1, Len(filename))

\* allowed_file(filename)
allowed_file(filename) ==
  /\ Contains(filename, ".")
  /\ LET ext == RSplitExt(filename)
     IN  Len(ext) = 1 /\ Lower(ext[1]) \in ALLOWED_EXTENSIONS

\* os.path.basename(urlparse(url).path) : the text after the last '/'
Basename(path) ==
  LET sl == {i \in 1..Len(path) : path[i] = "/"}
  IN  IF sl = {} THEN path ELSE SubSeq(path, SetMax(sl) + 1, Len(path))

\* werkzeug secure_filename: path separators are dropped and leading and
\* trailing dots are stripped.
secure_filename(name) ==
  LET kept == SelectSeq(name, LAMBDA t : t # "/")
      idx  == {i \in 1..Len(kept) : kept[i] \notin {".", ".."}}
  IN  IF idx = {} THEN <<>> ELSE SubSeq(kept, SetMin(idx), SetMax(idx))

\* ------------------------------------------------------ result interpreter
IsSpace(t) == t \in {" ", "NL"}

\* str.strip()
Strip(s) ==
  LET idx == {i \in 1..Len(s) : ~IsSpace(s[i])}
  IN  IF idx = {} THEN <<>> ELSE SubSeq(s, SetMin(idx), SetMax(idx))

\* The value of an expression, computed once: the one element of {e}.
The(S) == CHOOSE v \in S : TRUE

RECURSIVE SplitLines(_)
\* str.split('\n')
SplitLines(str) ==
  The({ LET nl == {i \in 1..Len(s) : s[i] = "NL"}
        IN  IF nl = {} THEN <<s>>
            ELSE The({ <<SubSeq(s, 1, i - 1)>> \o SplitLines(SubSeq(s, i + 1, Len(s)))
                       : i \in {SetMin(nl)} })
        : s \in {str} })

\* ': ' in line
HasSep(line) == \E i \in 1..(Len(line) - 1) : line[i] = ":" /\ line[i + 1] = " "

\* line.split(': ', 1)[1] if ': ' in line else line
FieldValue(line) ==
  IF HasSep(line)
  THEN LET i == SetMin({j \in 1..(Len(line) - 1) : line[j] = ":" /\ line[j + 1] = " "})
       IN  SubSeq(line, i + 2, Len(line))
  ELSE line

\* One iteration of "for line in lines": the if / elif on the two markers.
\* An optional key of response_data is a set: {} absent, {v} present.
ParseLine(acc, line) ==
  IF Contains(line, "M")
  THEN [acc EXCEPT !.multi = {FieldValue(line)}]
  ELSE IF Contains(line, "B")
       THEN [acc EXCEPT !.binary = {FieldValue(line)}]
       ELSE acc

RECURSIVE ParseLines(_, _)
ParseLines(acc, lines) ==
  The({ IF ls = <<>> THEN a
        ELSE The({ ParseLines(ParseLine(a, line), Tail(ls)) : line \in {Head(ls)} })
        : a \in {acc}, ls \in {lines} })

\* The parsing part of evaluate_audio: raw_output and the two optional keys.
ParseOutput(output) ==
  The({ ParseLines([raw_output |-> raw, multi |-> {}, binary |-> {}], SplitLines(raw))
        : raw \in {Strip(output)} })

\* ------------------------------------------------------------------- data
\* str(uuid.uuid4())[:8] : the values a request identifier can take
RequestIds == {"0a1b2c3d", "4e5f6a7b"}

\* A path of the file system.  os.path.join(UPLOAD_FOLDER,
\* f"{timestamp}_{request_id}_{name}") keeps its three components.
Path(dir, ts, id, name) == [dir |-> dir, ts |-> ts, id |-> id, name |-> name]
\* audio_file_path = None
NoPath == Path("", 0, "", <<>>)
\* Files that exist outside the upload directory when the server starts.
ExistingFiles ==
  {Path("data", 0, "", <<"a", ".", "wav">>), Path("data", 0, "", <<"notes", ".", "txt">>)}
\* The paths a JSON {filename} request names: existing files and a missing one.
FilenameInputs == ExistingFiles \cup {Path("data", 0, "", <<"gone", ".", "wav">>)}

\* file.filename of the multipart field 'audio'
UploadNames ==
  { <<>>, <<"a", ".", "wav">>, <<"a", ".", "txt">>, <<"a">>,
    <<"..", "/", "a", ".", "WAV">> }
\* urlparse(url).path of a JSON {url} request
UrlPaths ==
  { <<"/", "a", ".", "mp3">>, <<"/", "a", ".", "exe">>, <<"/">> }

\* The request as Flask presents it: request.files, request.is_json,
\* request.get_json() and the length of the body.
Request(kind, hasAudio, name, size, keys, url, filename) ==
  [kind |-> kind, hasAudio |-> hasAudio, name |-> name, size |-> size,
   keys |-> keys, url |-> url, filename |-> filename]
NoRequest == Request("", FALSE, <<>>, 0, {}, <<>>, NoPath)
Inputs ==
  {Request("multipart", TRUE, n, SmallBody, {}, <<>>, NoPath) : n \in UploadNames}
  \cup {Request("multipart", TRUE, <<"a", ".", "wav">>, MAX_CONTENT_LENGTH + 1, {}, <<>>, NoPath)}
  \cup {Request("multipart", FALSE, <<>>, SmallBody, {}, <<>>, NoPath)}
  \cup {Request("json", FALSE, <<>>, SmallBody, {"url"}, u, NoPath) : u \in UrlPaths}
  \cup {Request("json", FALSE, <<>>, SmallBody, {"filename"}, <<>>, f) : f \in FilenameInputs}
  \cup {Request("json", FALSE, <<>>, SmallBody, {"url", "filename"}, <<"/", "a", ".", "mp3">>,
                Path("data", 0, "", <<"a", ".", "wav">>))}
  \cup {Request("json", FALSE, <<>>, SmallBody, {}, <<>>, NoPath)}
  \cup {Request("other", FALSE, <<>>, SmallBody, {}, <<>>, NoPath)}

\* What the evaluator child can print on stdout.
Outputs ==
  { <<"verdict", "NL">>,
    <<"M", ":", " ", "synthetic", "NL", "B", ":", " ", "fake", "NL">> }
ExitCodes == {0, 1}
\* What the evaluator child can print on stderr when it fails.
Stderrs == {"Traceback", "CUDA out of memory"}
\* How long the evaluator child needs: within the timeout, or beyond it.
ChildDurations == {ShortRun, EVAL_TIMEOUT + ShortRun}
\* Total size of the body a remote server sends.
BodySizes == {SmallBody, MAX_CONTENT_LENGTH + 1}

\* jsonify({'error': ..., 'request_id': ...}), status: the message is a fixed
\* text, the list of allowed extensions when it is joined in, and a detail
\* (str(e), stderr, a path).
Error(msg, allowed, detail) == [msg |-> msg, allowed |-> allowed, detail |-> detail]
NoError == Error("", {}, "")
\* The keys of the JSON object: response_data of lines 279-296 for a result,
\* {'error', 'request_id'} for every error of evaluate_audio.
ResponseKeys(code, parsed) ==
  IF code = 200
  THEN {"request_id", "status", "processing_time_seconds", "raw_output", "timestamp"}
         \cup (IF parsed.multi # {} THEN {"multi_classification"} ELSE {})
         \cup (IF parsed.binary # {} THEN {"binary_classification"} ELSE {})
  ELSE IF code = 0 THEN {} ELSE {"error", "request_id"}
Response(code, rid, err, status, parsed, ptime) ==
  The({ [code |-> code, request_id |-> rid, error |-> err, status |-> status,
         raw_output |-> p.raw_output, multi_classification |-> p.multi,
         binary_classification |-> p.binary, processing_time |-> ptime,
         keys |-> ResponseKeys(code, p)]
        : p \in {parsed} })
NoParsed == [raw_output |-> <<>>, multi |-> {}, binary |-> {}]
NoResponse == Response(0, "", NoError, "", NoParsed, 0)
ErrorResponse(code, rid, err) == Response(code, rid, err, "", NoParsed, 0)

\* The (output, error) pair run_evaluation returns, or (path, error) of
\* download_audio_from_url.
NoResult == [output |-> <<>>, error |-> NoError]

\* The messages of the source.
InvalidType == Error("Invalid file type. Allowed: ", ALLOWED_EXTENSIONS, "")
InvalidTypeUrl == Error("Invalid file type in URL. Allowed: ", ALLOWED_EXTENSIONS, "")
TooLarge == Error("File too large. Maximum size is 100MB.", {}, "")
DownloadTimeout == Error("Download timeout. URL took too long to respond.", {}, "")
DownloadFailed == Error("Failed to download from URL: ", {}, "RequestException")
DownloadError(e) == Error("Error downloading file: ", {}, e)
EvalTimedOut == Error("Evaluation timed out after 5 minutes", {}, "")
\* Mutant of EvalFailed: the stderr of the child is left out.
EvalFailedWithoutStderr(stderr) == Error("Evaluation failed: ", {}, "")
EvalFailed(stderr) == Error("Evaluation failed: ", {}, stderr)
EvalError(e) == Error("Error running evaluation: ", {}, e)
InternalError(e) == Error("Internal server error: ", {}, e)
ModelMissing == Error("Model file not found: ", {}, MODEL_PATH)

\* ------------------------------------------------------------------ state
VARIABLES
  modelExists,      \* os.path.exists(MODEL_PATH)
  now,              \* int(time.time())
  disk,             \* the set of paths that exist
  pc,               \* position of each request thread in evaluate_audio
  req,              \* the request each thread serves
  request_id,       \* request_id
  audio_file_path,  \* audio_file_path
  cleanup_file,     \* cleanup_file
  dl,               \* download_audio_from_url: local_path, total_size, body sent, content-length
  proc,             \* the evaluator child of each request
  childDur,         \* how long that child needs to finish
  result,           \* (output, error) returned by run_evaluation
  processing_time,  \* processing_time
  resp,             \* the response returned
  modelSeen,        \* history: what line 183 read
  created,          \* history: paths this request created on disk
  removed,          \* history: paths this request removed from disk
  launches,         \* history: number of evaluator children launched
  fetches,          \* history: number of requests.get calls
  child,            \* history: exit code, stdout and stderr of the evaluator child
  phase,            \* history: the lifecycle phases the request went through
  text,             \* interpreter check: the stdout under test
  parsed,           \* interpreter check: ParseOutput(text)
  istate            \* interpreter check: "writing" or "done"

vars ==
  <<modelExists, now, disk, pc, req, request_id, audio_file_path, cleanup_file, dl,
    proc, childDur, result, processing_time, resp, modelSeen, created, removed,
    launches, fetches, child, phase, text, parsed, istate>>
pipelineVars ==
  <<modelExists, now, disk, pc, req, request_id, audio_file_path, cleanup_file, dl,
    proc, childDur, result, processing_time, resp, modelSeen, created, removed,
    launches, fetches, child, phase>>
interpVars == <<text, parsed, istate>>

\* No evaluator child has exited (returncode -1 stands for none).
NoChild == [rc |-> -1, stdout |-> <<>>, stderr |-> ""]
NoDownload == [local_path |-> NoPath, total_size |-> 0, body |-> 0, header |-> 0]

InitPipeline ==
  /\ modelExists \in BOOLEAN
  /\ now = 0
  /\ disk = ExistingFiles
  /\ pc = [r \in Requests |-> "idle"]
  /\ req = [r \in Requests |-> NoRequest]
  /\ request_id = [r \in Requests |-> ""]
  /\ audio_file_path = [r \in Requests |-> NoPath]
  /\ cleanup_file = [r \in Requests |-> FALSE]
  /\ dl = [r \in Requests |-> NoDownload]
  /\ proc = [r \in Requests |-> "none"]
  /\ childDur = [r \in Requests |-> 0]
  /\ result = [r \in Requests |-> NoResult]
  /\ processing_time = [r \in Requests |-> 0]
  /\ resp = [r \in Requests |-> NoResponse]
  /\ modelSeen = [r \in Requests |-> TRUE]
  /\ created = [r \in Requests |-> {}]
  /\ removed = [r \in Requests |-> {}]
  /\ launches = [r \in Requests |-> 0]
  /\ fetches = [r \in Requests |-> 0]
  /\ child = [r \in Requests |-> NoChild]
  /\ phase = [r \in Requests |-> <<>>]
InitInterp ==
  /\ text = <<>>
  /\ parsed = NoParsed
  /\ istate = "writing"

Init == InitPipeline /\ InitInterp

\* ---------------------------------------------------------------- helpers
\* The lifecycle phase a position of evaluate_audio belongs to: lines 179-190
\* Start, 192-257 Acquiring, 259-262 Executing, 264-270 Cleanup; the test of
\* line 272 belongs to no phase of its own.
PhaseOf(label) ==
  CASE label = "idle" -> <<"Start">>
    [] label \in {"acquire", "save", "connect", "stream"} -> <<"Acquiring">>
    [] label \in {"run", "wait"} -> <<"Executing">>
    [] label = "cleanup" -> <<"Cleanup">>
    [] OTHER -> <<>>
\* The phases a return adds: lines 279-299 interpret the output and answer 200,
\* every other return is a failure.
PhaseOfReturn(response) ==
  IF response.code = 200 THEN <<"Interpreting", "Done">> ELSE <<"Failed">>
\* The trace with the phases ps appended, a phase repeated in a row once only.
Visit(trace, ps) ==
  IF ps = <<>> THEN trace
  ELSE IF trace # <<>> /\ trace[Len(trace)] = ps[1]
       THEN trace \o Tail(ps)
       ELSE trace \o ps

\* return jsonify(...), status : the thread ends with this response
Return(r, response) ==
  /\ pc' = [pc EXCEPT ![r] = "done"]
  /\ resp' = [resp EXCEPT ![r] = response]
  /\ phase' = [phase EXCEPT ![r] = Visit(Visit(@, PhaseOf(pc[r])), PhaseOfReturn(response))]
\* The thread goes on to the statement at label.
Goto(r, label) ==
  /\ pc' = [pc EXCEPT ![r] = label]
  /\ phase' = [phase EXCEPT ![r] = Visit(Visit(@, PhaseOf(pc[r])), PhaseOf(label))]
  /\ UNCHANGED resp

\* Mutant of unique_filename: the request identifier is left out of the name.
unique_filename_without_id(timestamp, id, filename) == Path(UPLOAD_FOLDER, timestamp, "", filename)

\* f"{timestamp}_{request_id}_{filename}" under UPLOAD_FOLDER
unique_filename(timestamp, id, filename) == Path(UPLOAD_FOLDER, timestamp, id, filename)

\* Mutant of ModelCheckFails: the model check is skipped.
ModelCheckSkipped(exists) == FALSE

\* if not os.path.exists(MODEL_PATH)
ModelCheckFails(exists) == ~exists

\* Werkzeug refuses a body longer than MAX_CONTENT_LENGTH when request.files
\* is first read.
BodyTooLarge(size) == size > MAX_CONTENT_LENGTH

\* if content_length and int(content_length) > 100 * 1024 * 1024
\* (header 0 stands for an absent content-length header)
HeaderTooLarge(header) == header # 0 /\ header > MAX_CONTENT_LENGTH

\* if total_size > 100 * 1024 * 1024
StreamTooLarge(total_size) == total_size > MAX_CONTENT_LENGTH

\* Mutant of ShouldCleanup: the cleanup_file flag is ignored.
ShouldCleanupIgnoringFlag(flag, path, files) == path \in files

\* if cleanup_file and os.path.exists(audio_file_path)
ShouldCleanup(flag, path, files) == flag /\ path \in files

\* Mutant of TimedOut: subprocess.run is called without a timeout.
TimedOutNever(duration) == FALSE
\* subprocess.run(..., timeout=300) raises TimeoutExpired
TimedOut(duration) == duration > EVAL_TIMEOUT

\* Mutant of ProcAfterTimeout: the child is not killed on timeout.
ProcLeftRunning == "running"

\* subprocess.run kills the child and waits for it before it raises
\* TimeoutExpired
ProcAfterTimeout == "killed"

\* url_filename of download_audio_from_url
url_filename(url, id) ==
  LET base == Basename(url)
  IN  IF base = <<>> \/ ~Contains(base, ".")
      THEN <<"downloaded_audio_", id, ".", "mp3">>
      ELSE base

\* 'audio' in request.files
IsUpload(r) == req[r].kind = "multipart" /\ req[r].hasAudio
\* request.is_json and 'url' in data
IsUrl(r) == req[r].kind = "json" /\ "url" \in req[r].keys
\* request.is_json, 'url' not in data and 'filename' in data
IsFilename(r) == req[r].kind = "json" /\ "url" \notin req[r].keys /\ "filename" \in req[r].keys

\* -------------------------------------------------------------- operations
\* evaluate_audio, lines 179-190: the request identifier and the model check.
Begin(r) ==
  /\ pc[r] = "idle"
  /\ UNCHANGED interpVars
  /\ \E in \in Inputs, id \in RequestIds \ {request_id[q] : q \in Requests} :
       /\ req' = [req EXCEPT ![r] = in]
       /\ request_id' = [request_id EXCEPT ![r] = id]
       /\ modelSeen' = [modelSeen EXCEPT ![r] = modelExists]
       /\ IF ModelCheckFails(modelExists)
          THEN Return(r, ErrorResponse(500, id, ModelMissing))
          ELSE Goto(r, "acquire")
  /\ UNCHANGED <<child, modelExists, now, disk, audio_file_path, cleanup_file, dl, proc,
                 childDur, result, processing_time, created, removed, launches, fetches>>

\* evaluate_audio, lines 193-213: the branch 'audio' in request.files.
AcquireUpload(r) ==
  /\ pc[r] = "acquire"
  /\ UNCHANGED interpVars
  /\ IsUpload(r)
  /\ IF BodyTooLarge(req[r].size)
     THEN \* RequestEntityTooLarge is raised inside the try block
          /\ Return(r, ErrorResponse(500, request_id[r],
                                     InternalError("413 Request Entity Too Large")))
          /\ UNCHANGED audio_file_path
     ELSE IF req[r].name = <<>>
     THEN /\ Return(r, ErrorResponse(400, request_id[r], Error("No file selected", {}, "")))
          /\ UNCHANGED audio_file_path
     ELSE IF allowed_file(req[r].name)
     THEN /\ audio_file_path' =
               [audio_file_path EXCEPT ![r] =
                  unique_filename(now, request_id[r], secure_filename(req[r].name))]
          /\ Goto(r, "save")
     ELSE /\ Return(r, ErrorResponse(400, request_id[r], InvalidType))
          /\ UNCHANGED audio_file_path
  /\ UNCHANGED <<child, modelExists, now, disk, req, request_id, cleanup_file, dl, proc, childDur,
                 result, processing_time, modelSeen, created, removed, launches, fetches>>

\* file.save(audio_file_path); cleanup_file = True.  The save can fail before
\* the file is created or after part of it was written; the exception reaches
\* the handler of line 301.
SaveUpload(r) ==
  /\ pc[r] = "save"
  /\ UNCHANGED interpVars
  /\ \/ /\ disk' = disk \cup {audio_file_path[r]}
        /\ created' = [created EXCEPT ![r] = @ \cup {audio_file_path[r]}]
        /\ cleanup_file' = [cleanup_file EXCEPT ![r] = TRUE]
        /\ Goto(r, "run")
     \/ /\ disk' = disk \cup {audio_file_path[r]}
        /\ created' = [created EXCEPT ![r] = @ \cup {audio_file_path[r]}]
        /\ Return(r, ErrorResponse(500, request_id[r], InternalError("OSError")))
        /\ UNCHANGED cleanup_file
     \/ /\ Return(r, ErrorResponse(500, request_id[r], InternalError("OSError")))
        /\ UNCHANGED <<disk, created, cleanup_file>>
  /\ UNCHANGED <<child, modelExists, now, req, request_id, audio_file_path, dl, proc, childDur,
                 result, processing_time, modelSeen, removed, launches, fetches>>

\* evaluate_audio, lines 216-225 with download_audio_from_url, lines 55-70:
\* the file name of the URL, its type check and the local path.
AcquireUrl(r) ==
  /\ pc[r] = "acquire"
  /\ UNCHANGED interpVars
  /\ IsUrl(r)
  /\ LET name == url_filename(req[r].url, request_id[r])
     IN  IF ~allowed_file(name)
         THEN /\ Return(r, ErrorResponse(400, request_id[r], InvalidTypeUrl))
              /\ UNCHANGED dl
         ELSE /\ dl' = [dl EXCEPT ![r].local_path =
                          unique_filename(now, request_id[r], secure_filename(name))]
              /\ Goto(r, "connect")
  /\ UNCHANGED <<child, modelExists, now, disk, req, request_id, audio_file_path, cleanup_file,
                 proc, childDur, result, processing_time, modelSeen, created, removed,
                 launches, fetches>>

\* evaluate_audio, lines 237-245: the branch 'filename' in data.
AcquireFilename(r) ==
  /\ pc[r] = "acquire"
  /\ UNCHANGED interpVars
  /\ IsFilename(r)
  /\ audio_file_path' = [audio_file_path EXCEPT ![r] = req[r].filename]
  /\ IF req[r].filename \notin disk
     THEN Return(r, ErrorResponse(400, request_id[r], Error("File not found: ", {}, "path")))
     ELSE Goto(r, "run")
  /\ UNCHANGED <<child, modelExists, now, disk, req, request_id, cleanup_file, dl, proc, childDur,
                 result, processing_time, modelSeen, created, removed, launches, fetches>>

\* evaluate_audio, lines 247-257: no input in the request.
AcquireNone(r) ==
  /\ pc[r] = "acquire"
  /\ UNCHANGED interpVars
  /\ \/ /\ req[r].kind = "json" /\ req[r].keys = {}
        /\ Return(r, ErrorResponse(400, request_id[r],
                                   Error("Missing filename or url in request", {}, "")))
     \/ /\ req[r].kind # "json" /\ ~req[r].hasAudio
        /\ Return(r, ErrorResponse(400, request_id[r], Error("No audio file provided.", {}, "")))
  /\ UNCHANGED <<child, modelExists, now, disk, req, request_id, audio_file_path, cleanup_file, dl,
                 proc, childDur, result, processing_time, modelSeen, created, removed,
                 launches, fetches>>

\* download_audio_from_url, lines 77-92: requests.get, raise_for_status, the
\* content-length check and open(local_path, 'wb').  The error returned makes
\* evaluate_audio answer 400 (lines 226-230).
Connect(r) ==
  /\ pc[r] = "connect"
  /\ UNCHANGED interpVars
  /\ fetches' = [fetches EXCEPT ![r] = @ + 1]
  /\ \/ /\ Return(r, ErrorResponse(400, request_id[r], DownloadTimeout))
        /\ UNCHANGED <<disk, created, dl>>
     \/ /\ Return(r, ErrorResponse(400, request_id[r], DownloadFailed))
        /\ UNCHANGED <<disk, created, dl>>
     \/ \E body \in BodySizes : \E header \in {0, body} :
          IF HeaderTooLarge(header)
          THEN /\ Return(r, ErrorResponse(400, request_id[r], TooLarge))
               /\ dl' = [dl EXCEPT ![r].body = body, ![r].header = header]
               /\ UNCHANGED <<disk, created>>
          ELSE \/ /\ disk' = disk \cup {dl[r].local_path}
                  /\ created' = [created EXCEPT ![r] = @ \cup {dl[r].local_path}]
                  /\ dl' = [dl EXCEPT ![r].body = body, ![r].header = header]
                  /\ Goto(r, "stream")
               \/ /\ Return(r, ErrorResponse(400, request_id[r], DownloadError("OSError")))
                  /\ UNCHANGED <<disk, created, dl>>
  /\ UNCHANGED <<child, modelExists, now, req, request_id, audio_file_path, cleanup_file, proc,
                 childDur, result, processing_time, modelSeen, removed, launches>>

\* download_audio_from_url, lines 93-101: a run of iterations of the chunk
\* loop: the first chunk alone, or all chunks up to the end of the body or to
\* the first chunk that passes the limit.  os.remove can raise; the handler of line 110 then
\* returns the error.
StreamChunks(r) ==
  /\ pc[r] = "stream"
  /\ UNCHANGED interpVars
  /\ dl[r].total_size < dl[r].body
  /\ \E n \in (IF dl[r].total_size = 0 THEN {CHUNK_SIZE, dl[r].body} ELSE {dl[r].body}) :
       /\ n > dl[r].total_size /\ n <= dl[r].body
       /\ IF StreamTooLarge(n)
          THEN \/ /\ disk' = disk \ {dl[r].local_path}
                  /\ removed' = [removed EXCEPT ![r] = @ \cup {dl[r].local_path}]
                  /\ Return(r, ErrorResponse(400, request_id[r], TooLarge))
                  /\ dl' = [dl EXCEPT ![r].total_size = n]
               \/ /\ Return(r, ErrorResponse(400, request_id[r], DownloadError("OSError")))
                  /\ dl' = [dl EXCEPT ![r].total_size = n]
                  /\ UNCHANGED <<disk, removed>>
          ELSE /\ dl' = [dl EXCEPT ![r].total_size = n]
               /\ Goto(r, "stream")
               /\ UNCHANGED <<disk, removed>>
  /\ UNCHANGED <<child, modelExists, now, req, request_id, audio_file_path, cleanup_file, proc,
                 childDur, result, processing_time, modelSeen, created, launches, fetches>>

\* download_audio_from_url, lines 103-104 and evaluate_audio, lines 232-234:
\* the body is complete; the function returns local_path and its other
\* locals are gone.
StreamEnd(r) ==
  /\ pc[r] = "stream"
  /\ UNCHANGED interpVars
  /\ dl[r].total_size = dl[r].body
  /\ audio_file_path' = [audio_file_path EXCEPT ![r] = dl[r].local_path]
  /\ cleanup_file' = [cleanup_file EXCEPT ![r] = TRUE]
  /\ dl' = [dl EXCEPT ![r] = NoDownload]
  /\ Goto(r, "run")
  /\ UNCHANGED <<child, modelExists, now, disk, req, request_id, proc, childDur, result,
                 processing_time, modelSeen, created, removed, launches, fetches>>

\* download_audio_from_url, lines 106-111: a read timeout, a transport error
\* or a failed write while the body is streamed.
StreamFail(r) ==
  /\ pc[r] = "stream"
  /\ UNCHANGED interpVars
  /\ dl[r].total_size < dl[r].body
  /\ \E e \in {DownloadTimeout, DownloadFailed, DownloadError("OSError")} :
       Return(r, ErrorResponse(400, request_id[r], e))
  /\ UNCHANGED <<child, modelExists, now, disk, req, request_id, audio_file_path, cleanup_file, dl,
                 proc, childDur, result, processing_time, modelSeen, created, removed,
                 launches, fetches>>

\* Mutant of AfterRun: the cleanup of lines 264-270 is skipped.
AfterRunSkippingCleanup == "respond"
\* evaluate_audio, line 264: the statement that follows run_evaluation.
AfterRun == "cleanup"
\* Mutant of OnCleanupError: the exception of os.remove reaches the catch-all.
OnCleanupErrorRaised(res) == [output |-> <<>>, error |-> InternalError("OSError")]
\* evaluate_audio, lines 269-270: an exception of os.remove is logged, the
\* (output, error) pair is kept.
OnCleanupError(res) == res
\* Mutant of RunErrorStatus: an evaluation error is answered as a client error.
RunErrorStatusClient(error) == 400
\* evaluate_audio, lines 273-276: the status of an evaluation error.
RunErrorStatus(error) == 500

\* run_evaluation, lines 139-147: what a completed child gives.
CompletedResult(rc, stdout, stderr) ==
  IF rc # 0
  THEN [output |-> <<>>, error |-> EvalFailed(stderr)]
  ELSE [output |-> stdout, error |-> NoError]

\* run_evaluation, lines 115-137: subprocess.run starts the child, or raises
\* (handler of line 153).
RunLaunch(r) ==
  /\ pc[r] = "run"
  /\ UNCHANGED interpVars
  /\ launches' = [launches EXCEPT ![r] = @ + 1]
  /\ \/ /\ proc' = [proc EXCEPT ![r] = "running"]
        /\ \E d \in ChildDurations : childDur' = [childDur EXCEPT ![r] = d]
        /\ Goto(r, "wait")
        /\ UNCHANGED result
     \/ /\ result' = [result EXCEPT ![r] = [output |-> <<>>, error |-> EvalError("OSError")]]
        /\ Goto(r, AfterRun)
        /\ UNCHANGED <<proc, childDur>>
  /\ UNCHANGED <<child, modelExists, now, disk, req, request_id, audio_file_path, cleanup_file, dl,
                 processing_time, modelSeen, created, removed, fetches>>

\* run_evaluation, lines 139-147: the child exits within the timeout (a child
\* that needs longer is never seen to exit: only the timeout ends the wait).
EvalExit(r) ==
  /\ pc[r] = "wait"
  /\ UNCHANGED interpVars
  /\ childDur[r] <= EVAL_TIMEOUT
  /\ proc' = [proc EXCEPT ![r] = "exited"]
  /\ processing_time' = [processing_time EXCEPT ![r] = childDur[r]]
  /\ \E rc \in ExitCodes :
       \E out \in (IF rc = 0 THEN Outputs ELSE {<<>>}) :
         \E err \in (IF rc = 0 THEN {""} ELSE Stderrs) :
           /\ child' = [child EXCEPT ![r] = [rc |-> rc, stdout |-> out, stderr |-> err]]
           /\ result' = [result EXCEPT ![r] = CompletedResult(rc, out, err)]
  /\ Goto(r, AfterRun)
  /\ UNCHANGED <<modelExists, now, disk, req, request_id, audio_file_path, cleanup_file, dl,
                 childDur, modelSeen, created, removed, launches, fetches>>

\* run_evaluation, lines 149-152: the child is still running after 300 s.
EvalTimeout(r) ==
  /\ pc[r] = "wait"
  /\ UNCHANGED interpVars
  /\ TimedOut(childDur[r])
  /\ proc' = [proc EXCEPT ![r] = ProcAfterTimeout]
  /\ processing_time' = [processing_time EXCEPT ![r] = EVAL_TIMEOUT]
  /\ result' = [result EXCEPT ![r] = [output |-> <<>>, error |-> EvalTimedOut]]
  /\ Goto(r, AfterRun)
  /\ UNCHANGED <<child, modelExists, now, disk, req, request_id, audio_file_path, cleanup_file, dl,
                 childDur, modelSeen, created, removed, launches, fetches>>

\* evaluate_audio, lines 264-270: os.remove succeeds, or raises and is logged.
Cleanup(r) ==
  /\ pc[r] = "cleanup"
  /\ UNCHANGED interpVars
  /\ IF ShouldCleanup(cleanup_file[r], audio_file_path[r], disk)
     THEN \/ /\ disk' = disk \ {audio_file_path[r]}
             /\ removed' = [removed EXCEPT ![r] = @ \cup {audio_file_path[r]}]
             /\ UNCHANGED result
          \/ /\ result' = [result EXCEPT ![r] = OnCleanupError(@)]
             /\ UNCHANGED <<disk, removed>>
     ELSE UNCHANGED <<disk, removed, result>>
  /\ Goto(r, "respond")
  /\ UNCHANGED <<child, modelExists, now, req, request_id, audio_file_path, cleanup_file, dl, proc,
                 childDur, processing_time, modelSeen, created, launches, fetches>>

\* evaluate_audio, lines 272-299: the error response, or the parsed result.
Respond(r) ==
  /\ pc[r] = "respond"
  /\ UNCHANGED interpVars
  /\ IF result[r].error # NoError
     THEN Return(r, ErrorResponse(RunErrorStatus(result[r].error), request_id[r],
                                  result[r].error))
     ELSE Return(r, Response(200, request_id[r], NoError, "success",
                              ParseOutput(result[r].output), processing_time[r]))
  /\ UNCHANGED <<child, modelExists, now, disk, req, request_id, audio_file_path, cleanup_file, dl,
                 proc, childDur, result, processing_time, modelSeen, created, removed,
                 launches, fetches>>

\* ------------------------------------------------------------- environment
\* The wall clock read by int(time.time()) advances.
Tick ==
  /\ now < MaxTime
  /\ UNCHANGED interpVars
  /\ now' = now + 1
  /\ UNCHANGED <<child, phase, modelExists, disk, pc, req, request_id, audio_file_path, cleanup_file, dl,
                 proc, childDur, result, processing_time, resp, modelSeen, created, removed,
                 launches, fetches>>

\* The operator installs or removes the model file (the start-up warning of
\* lines 345-347 asks for it to be placed at MODEL_PATH).
ModelChange ==
  /\ modelExists' = ~modelExists
  /\ UNCHANGED interpVars
  /\ UNCHANGED <<child, phase, now, disk, pc, req, request_id, audio_file_path, cleanup_file, dl, proc,
                 childDur, result, processing_time, resp, modelSeen, created, removed,
                 launches, fetches>>

Next ==
  \/ \E r \in Requests : Begin(r)
  \/ \E r \in Requests : AcquireUpload(r)
  \/ \E r \in Requests : SaveUpload(r)
  \/ \E r \in Requests : AcquireUrl(r)
  \/ \E r \in Requests : AcquireFilename(r)
  \/ \E r \in Requests : AcquireNone(r)
  \/ \E r \in Requests : Connect(r)
  \/ \E r \in Requests : StreamChunks(r)
  \/ \E r \in Requests : StreamEnd(r)
  \/ \E r \in Requests : StreamFail(r)
  \/ \E r \in Requests : RunLaunch(r)
  \/ \E r \in Requests : EvalExit(r)
  \/ \E r \in Requests : EvalTimeout(r)
  \/ \E r \in Requests : Cleanup(r)
  \/ \E r \in Requests : Respond(r)
  \/ Tick
  \/ ModelChange

Spec == Init /\ [][Next]_vars

\* The steps of the thread that serves request r, once the request is in.
RequestStep(r) ==
  \/ AcquireUpload(r) \/ SaveUpload(r) \/ AcquireUrl(r) \/ AcquireFilename(r)
  \/ AcquireNone(r) \/ Connect(r) \/ StreamChunks(r) \/ StreamEnd(r) \/ StreamFail(r)
  \/ RunLaunch(r) \/ EvalExit(r) \/ EvalTimeout(r) \/ Cleanup(r) \/ Respond(r)

\* The server with one request followed on its own: app.run(threaded=True)
\* gives every request a thread of its own and no thread waits for a lock or
\* for a step of another, so the progress of a request is that of its thread.
Followed == {SetMin(Requests)}
NextFollowed ==
  \/ \E r \in Followed : Begin(r)
  \/ \E r \in Followed : AcquireUpload(r)
  \/ \E r \in Followed : SaveUpload(r)
  \/ \E r \in Followed : AcquireUrl(r)
  \/ \E r \in Followed : AcquireFilename(r)
  \/ \E r \in Followed : AcquireNone(r)
  \/ \E r \in Followed : Connect(r)
  \/ \E r \in Followed : StreamChunks(r)
  \/ \E r \in Followed : StreamEnd(r)
  \/ \E r \in Followed : StreamFail(r)
  \/ \E r \in Followed : RunLaunch(r)
  \/ \E r \in Followed : EvalExit(r)
  \/ \E r \in Followed : EvalTimeout(r)
  \/ \E r \in Followed : Cleanup(r)
  \/ \E r \in Followed : Respond(r)
  \/ Tick
  \/ ModelChange

\* Fair scheduling: each blocking call returns (requests.get and every read
\* of the stream within timeout=30, subprocess.run within timeout=300), so a
\* thread that can take a step takes it in the end.  Nothing obliges a client
\* to send a request, the clock to tick or the model file to change.
SpecFair ==
  Init /\ [][NextFollowed]_vars /\ \A r \in Followed : WF_vars(RequestStep(r))

\* ------------------------------------------- the interpreter on every stdout
Alphabet == {"M", "B", ":", " ", "NL", "fake"}

\* The evaluator prints one more token.
Emit ==
  /\ istate = "writing"
  /\ UNCHANGED pipelineVars
  /\ Len(text) < MaxLen
  /\ \E t \in Alphabet : text' = Append(text, t)
  /\ UNCHANGED <<parsed, istate>>

\* evaluate_audio, lines 279-296 applied to the stdout.
Interpret ==
  /\ istate = "writing"
  /\ UNCHANGED pipelineVars
  /\ parsed' = ParseOutput(text)
  /\ istate' = "done"
  /\ UNCHANGED text

NextInterp ==
  \/ Emit
  \/ Interpret

SpecInterp == Init /\ [][NextInterp]_vars

\* ------------------------------------------------------------------ claims
\* The file name the type check of a request looks at.
CheckedName(r) ==
  IF IsUpload(r) THEN req[r].name
  ELSE IF IsUrl(r) THEN url_filename(req[r].url, request_id[r])
  ELSE req[r].filename.name

\* C1: when a request with an upload or a URL created a local file and ended
\* on an evaluator path (exit 0, non-zero exit, timeout) or with an unexpected
\* exception of evaluate_audio, the file no longer exists when it returns.
C1_OwnedFileGoneAtReturn ==
  \A r \in Requests :
    ( /\ pc[r] = "done"
      /\ IsUpload(r) \/ IsUrl(r)
      /\ created[r] # {}
      /\ launches[r] > 0 \/ resp[r].error.msg = "Internal server error: " )
    => created[r] \cap disk = {}

\* C2: the file named by a JSON {filename} request is never removed by that
\* request: it still exists after the request returned, whatever the outcome,
\* and cleanup_file is never set on that branch.
C2_ExistingPathKept ==
  \A r \in Requests :
    (pc[r] # "idle" /\ IsFilename(r) /\ req[r].filename \in ExistingFiles)
    => /\ req[r].filename \in disk
       /\ removed[r] = {}
       /\ ~cleanup_file[r]
\* Two {filename} requests on the same file have returned, one with a result
\* and one with an evaluation error.
C2_Witness ==
  \E r1, r2 \in Requests :
    /\ r1 # r2 /\ pc[r1] = "done" /\ pc[r2] = "done"
    /\ IsFilename(r1) /\ IsFilename(r2) /\ req[r1].filename = req[r2].filename
    /\ resp[r1].code = 200 /\ resp[r2].code = 500 /\ launches[r2] = 1

\* The request carries more than 100 MiB: an upload body over the limit, or a
\* download whose content-length announces, or whose streamed bytes reach,
\* more than the limit.
Oversized(r) ==
  \/ IsUpload(r) /\ req[r].size > MAX_CONTENT_LENGTH /\ modelSeen[r]
  \/ IsUrl(r) /\ (dl[r].header > MAX_CONTENT_LENGTH \/ dl[r].total_size > MAX_CONTENT_LENGTH)

\* C3: an upload or download of more than 100 MiB fails with the
\* file-too-large error, the evaluator is never launched and no file of the
\* request remains in the upload directory.
C3_OversizedRejected ==
  \A r \in Requests :
    (pc[r] = "done" /\ Oversized(r))
    => /\ resp[r].error = TooLarge
       /\ launches[r] = 0
       /\ created[r] \cap disk = {}

\* C4: when acquisition fails after the local file was opened for writing
\* (transport error, read timeout or write failure), the partial file has been
\* removed when the request returns its error response.
C4_PartialFileRemoved ==
  \A r \in Requests :
    ( /\ pc[r] = "done"
      /\ created[r] # {}
      /\ launches[r] = 0
      /\ resp[r].error # TooLarge )
    => created[r] \cap disk = {}

\* C5: in each of the three input modes a name with an allowed extension
\* passes the type check, and a name with any other extension is rejected
\* with an invalid-file-type error listing the allowed set, before the
\* evaluator is launched.
C5_TypeCheckedInEveryMode ==
  \A r \in Requests :
    ( /\ pc[r] = "done" /\ modelSeen[r]
      /\ \/ IsUpload(r) /\ ~BodyTooLarge(req[r].size) /\ req[r].name # <<>>
         \/ IsUrl(r)
         \/ IsFilename(r) /\ req[r].filename \in ExistingFiles )
    => IF allowed_file(CheckedName(r))
       THEN resp[r].error \notin {InvalidType, InvalidTypeUrl}
       ELSE /\ resp[r].error \in {InvalidType, InvalidTypeUrl}
            /\ resp[r].error.allowed = ALLOWED_EXTENSIONS
            /\ launches[r] = 0

\* C6: a request that finds the model file missing fails at once with the
\* model-unavailable error (500): nothing was written to the upload
\* directory, no download was started and no evaluator was launched.
C6_ModelCheckedFirst ==
  \A r \in Requests :
    (pc[r] # "idle" /\ ~modelSeen[r])
    => /\ pc[r] = "done"
       /\ resp[r].code = 500 /\ resp[r].error = ModelMissing
       /\ created[r] = {} /\ fetches[r] = 0 /\ launches[r] = 0
       /\ audio_file_path[r] = NoPath /\ dl[r] = NoDownload
\* An upload and a URL request have both been refused for the missing model.
C6_Witness ==
  \E r1, r2 \in Requests :
    /\ IsUpload(r1) /\ IsUrl(r2)
    /\ ~modelSeen[r1] /\ ~modelSeen[r2]
    /\ resp[r1].error = ModelMissing /\ resp[r2].error = ModelMissing

\* C7: when the evaluator child needs longer than the timeout, run_evaluation
\* returns the evaluation-timeout error (no output, no other error), no child
\* of the request is running once it has returned, and the response is that
\* error.
C7_TimeoutKillsChild ==
  \A r \in Requests :
    (childDur[r] > EVAL_TIMEOUT /\ pc[r] \in {"cleanup", "respond", "done"})
    => /\ result[r] = [output |-> <<>>, error |-> EvalTimedOut]
       /\ proc[r] # "running"
       /\ pc[r] = "done" => (resp[r].code = 500 /\ resp[r].error = EvalTimedOut)
\* A request whose child overran has returned.
C7_Witness ==
  \E r \in Requests :
    childDur[r] > EVAL_TIMEOUT /\ pc[r] = "done" /\ resp[r].error = EvalTimedOut

OutputLines(output) == SplitLines(Strip(output))
\* The values the claim allows for a marker: the text after the first ": " of
\* a line that contains it (the whole line without ": ").
MarkerValues(output, marker) ==
  {FieldValue(OutputLines(output)[i]) :
     i \in {j \in 1..Len(OutputLines(output)) : Contains(OutputLines(output)[j], marker)}}

\* C9: for every stdout, multiClass is set from a line that contains the
\* Multi marker and binaryClass, by the same rule, from a line that contains
\* the Binary marker, also when both markers are on one line or a marker is
\* on several lines; a field is absent only when its marker is.
C9_BothMarkersExtracted ==
  istate = "done" =>
    /\ IF MarkerValues(text, "M") = {} THEN parsed.multi = {}
       ELSE parsed.multi # {} /\ parsed.multi \subseteq MarkerValues(text, "M")
    /\ IF MarkerValues(text, "B") = {} THEN parsed.binary = {}
       ELSE parsed.binary # {} /\ parsed.binary \subseteq MarkerValues(text, "B")

\* C10: a successful response carries the evaluator's stdout verbatim as
\* raw_output, and when the stdout has neither marker both optional keys are
\* absent and the request still succeeds.
C10_RawOutputVerbatim ==
  \A r \in Requests :
    (pc[r] = "done" /\ launches[r] > 0 /\ result[r].error = NoError)
    => /\ resp[r].code = 200
       /\ resp[r].raw_output = result[r].output
       /\ (~Contains(result[r].output, "M") /\ ~Contains(result[r].output, "B"))
            => (resp[r].multi_classification = {} /\ resp[r].binary_classification = {})

\* The input variants the request populates: the multipart part 'audio', the
\* JSON key 'url', the JSON key 'filename'.
Variants(r) ==
  (IF req[r].hasAudio THEN {"audio"} ELSE {}) \cup (req[r].keys \cap {"url", "filename"})

\* C11: a request that populates more than one input variant is refused as a
\* client error (400) and nothing is acquired or evaluated for it: no
\* download is started, no file is created and no evaluator is launched.
C11_OneVariantOnly ==
  \A r \in Requests :
    (pc[r] # "idle" /\ modelSeen[r] /\ Cardinality(Variants(r)) > 1)
    => /\ fetches[r] = 0 /\ created[r] = {} /\ launches[r] = 0
       /\ pc[r] = "done" => resp[r].code = 400

\* The request carries an upload of more than 100 MiB and got past the model
\* check.
OversizedUpload(r) == IsUpload(r) /\ BodyTooLarge(req[r].size) /\ modelSeen[r]

\* C12: every error response of POST /evaluate carries the identifier of its
\* request and a message; the answer to an oversized body is the one the 413
\* handler builds and carries the identifier too; every file-type error lists
\* the allowed extensions.
C12_ErrorsCarryRequestId ==
  \A r \in Requests :
    (pc[r] = "done" /\ resp[r].code # 200)
    => /\ "request_id" \in resp[r].keys /\ resp[r].request_id = request_id[r]
       /\ "error" \in resp[r].keys /\ resp[r].error.msg # ""
       /\ OversizedUpload(r) => (resp[r].code = 413 /\ resp[r].error = TooLarge)
       /\ resp[r].error.msg \in {InvalidType.msg, InvalidTypeUrl.msg}
            => resp[r].error.allowed = ALLOWED_EXTENSIONS

\* The request went through execution and has returned.
Executed(r) == pc[r] = "done" /\ launches[r] > 0

C14_OneFileRemovedOnce ==
  \A r \in Requests :
    /\ Cardinality(created[r]) <= 1
    /\ removed[r] \subseteq created[r]
    /\ Cardinality(removed[r]) <= 1
    /\ removed[r] \cap disk = {}
    /\ pc[r] = "done" => removed[r] = created[r]

\* The evaluator child of the request exited with status 0 before the timeout.
ExitedZero(r) == proc[r] = "exited" /\ child[r].rc = 0
\* The error run_evaluation owes for what happened to the child: its stderr
\* after a non-zero exit, the timeout after a kill, the launch error when no
\* child was started.
EvaluationError(r) ==
  CASE proc[r] = "exited" -> EvalFailed(child[r].stderr)
    [] proc[r] = "killed" -> EvalTimedOut
    [] OTHER -> EvalError("OSError")

\* C15: the evaluator is launched at most once for a request; after a non-zero
\* exit, a timeout or a launch error the request returns an error response
\* with that one launch, and the error of a non-zero exit reports the stderr
\* of the child.
C15_LaunchedAtMostOnce ==
  \A r \in Requests :
    /\ launches[r] <= 1
    /\ (Executed(r) /\ ~ExitedZero(r))
       => /\ launches[r] = 1
          /\ resp[r].code # 200 /\ resp[r].status # "success"
          /\ resp[r].error = EvaluationError(r)
          /\ child[r].rc # -1 => resp[r].error.detail = child[r].stderr
\* One request returned the stderr of its failed child, the other the
\* timeout of its child, one launch each.
C15_Witness ==
  \E r1, r2 \in Requests :
    /\ Executed(r1) /\ child[r1].rc = 1 /\ child[r1].stderr = "Traceback"
    /\ resp[r1].error = EvalFailed("Traceback") /\ launches[r1] = 1
    /\ Executed(r2) /\ proc[r2] = "killed" /\ launches[r2] = 1

\* C16: the response of every request that reached execution includes the
\* measured duration of the evaluation, after a success and after a failure
\* (non-zero exit or timeout) alike.
C16_DurationAlwaysReturned ==
  \A r \in Requests :
    (Executed(r) /\ proc[r] # "none")
    => /\ "processing_time_seconds" \in resp[r].keys
       /\ resp[r].processing_time = processing_time[r]

\* C17: under fair scheduling every request that came in returns in the end,
\* whatever the remote server sends and however long the evaluator runs: no
\* request stays in the download or in the wait for the evaluator for ever.
C17_EveryRequestReturns ==
  \A r \in Requests : (pc[r] # "idle") ~> (pc[r] = "done")
\* A request whose download went well and whose evaluator was ended by the
\* 300 s timeout has returned.
C17_Witness ==
  \E r \in Requests :
    /\ pc[r] = "done" /\ fetches[r] = 1
    /\ childDur[r] > EVAL_TIMEOUT /\ proc[r] = "killed"

\* The cleanup step of the request is over and did not remove the file the
\* request owns: os.remove raised.
CleanupFailed(r) ==
  /\ pc[r] \in {"respond", "done"}
  /\ launches[r] > 0 /\ cleanup_file[r] /\ removed[r] = {}

\* C18: a failed cleanup does not change the outcome: the request returns the
\* result (200, status success, the output of the child) when its evaluator
\* exited with 0 and the evaluation error (500) otherwise.
C18_CleanupFailureKeepsOutcome ==
  \A r \in Requests :
    CleanupFailed(r)
    => /\ result[r] = IF ExitedZero(r)
                      THEN [output |-> child[r].stdout, error |-> NoError]
                      ELSE [output |-> <<>>, error |-> EvaluationError(r)]
       /\ pc[r] = "done"
          => IF ExitedZero(r)
             THEN /\ resp[r].code = 200 /\ resp[r].status = "success"
                  /\ resp[r].raw_output = Strip(child[r].stdout)
             ELSE /\ resp[r].code = 500 /\ resp[r].error = EvaluationError(r)
\* Two requests whose cleanup failed have returned, one with the result and
\* one with the error of its evaluator.
C18_Witness ==
  \E r1, r2 \in Requests :
    /\ CleanupFailed(r1) /\ pc[r1] = "done" /\ ExitedZero(r1) /\ resp[r1].code = 200
    /\ CleanupFailed(r2) /\ pc[r2] = "done" /\ child[r2].rc = 1 /\ resp[r2].code = 500
    /\ created[r1] \subseteq disk /\ created[r2] \subseteq disk

AcquisitionMessages ==
  { "No file selected", "No audio file provided.", "Missing filename or url in request",
    "File not found: ", InvalidType.msg, InvalidTypeUrl.msg, TooLarge.msg,
    DownloadTimeout.msg, DownloadFailed.msg, DownloadError("").msg }

====
